---- MODULE Spec2Model ----
(***************************************************************************)
(* Model of the todo list component App (react-todo-app/src/App.tsx):      *)
(* the component state, the two mount effects (load from / save to the     *)
(* localStorage slot 'todos') and the event handlers.                      *)
(*                                                                         *)
(* Strings are sequences of one-character strings.  A Date is its time     *)
(* value in milliseconds, InvalidDate standing for the NaN time value.     *)
(* The localStorage slot is modelled by what JSON.parse makes of its text. *)
(***************************************************************************)
EXTENDS Naturals, Integers, Sequences, FiniteSets

VARIABLES todos, newTodo, filter, editingId, editText,
          slot, now, pc, queued

vars == <<todos, newTodo, filter, editingId, editText,
          slot, now, pc, queued>>

\* ------------------------------------------------------------------ bounds
MaxTodos == 2

\* the millisecond readings the clock may return, in non-decreasing order
ClockReadings == {9, 10}

FirstReading == CHOOSE c \in ClockReadings : \A d \in ClockReadings : c <= d

\* ----------------------------------------------------------------- strings
\* what may be typed into the new-todo input
NewTodoInputs == {<<>>, <<" ">>, <<" ", "a", " ">>, <<"b">>}

\* what may be typed into the edit input
EditTextInputs == {<<>>, <<" ">>, <<"b", " ">>}

Digits == <<"0", "1", "2", "3", "4", "5", "6", "7", "8", "9">>

RECURSIVE trimStart(_)
trimStart(s) ==
    IF s # <<>> /\ Head(s) = " " THEN trimStart(Tail(s)) ELSE s

RECURSIVE trimEnd(_)
trimEnd(s) ==
    IF s # <<>> /\ s[Len(s)] = " " THEN trimEnd(SubSeq(s, 1, Len(s) - 1)) ELSE s

trim(s) == trimEnd(trimStart(s))

\* Number.prototype.toString: decimal digits, most significant first
RECURSIVE toString(_)
toString(n) ==
    IF n < 10 THEN <<Digits[n + 1]>>
    ELSE toString(n \div 10) \o <<Digits[(n % 10) + 1]>>

\* ------------------------------------------------------------------- dates
InvalidDate == -1

IsDigit(c) == \E i \in 1..10 : Digits[i] = c

DigitValue(c) == (CHOOSE i \in 1..10 : Digits[i] = c) - 1

RECURSIVE parseDigits(_)
parseDigits(s) ==
    IF s = <<>> THEN 0
    ELSE parseDigits(SubSeq(s, 1, Len(s) - 1)) * 10 + DigitValue(s[Len(s)])

\* Date.prototype.toISOString, abridged to the time value followed by "Z"
toISOString(d) == toString(d) \o <<"Z">>

\* new Date(string): the time value of a well-formed date string, else NaN
dateParse(s) ==
    IF /\ Len(s) >= 2
       /\ s[Len(s)] = "Z"
       /\ \A i \in 1..(Len(s) - 1) : IsDigit(s[i])
    THEN parseDigits(SubSeq(s, 1, Len(s) - 1))
    ELSE InvalidDate

\* -------------------------------------------------------------- JSON values
JString(s) == [k |-> "string", s |-> s]

JNull == [k |-> "null", s |-> <<>>]

JAbsent == [k |-> "absent", s |-> <<>>]

\* Date.prototype.toJSON: the ISO string, or null for an invalid date
dateToJSON(d) == IF d = InvalidDate THEN JNull ELSE JString(toISOString(d))

\* new Date(value) for the value found under createdAt
newDate(j) ==
    CASE j.k = "string" -> dateParse(j.s)
      [] j.k = "null"   -> 0
      [] OTHER          -> InvalidDate

JObject(id, text, completed, createdAt) ==
    [k |-> "object", id |-> id, text |-> text, completed |-> completed,
     createdAt |-> createdAt]

JNullItem == [k |-> "null", id |-> <<>>, text |-> <<>>, completed |-> FALSE,
              createdAt |-> JAbsent]

JArray(items) == [k |-> "array", items |-> items]

JNonArray == [k |-> "object", items |-> <<>>]

NoDoc == [k |-> "none", items |-> <<>>]

\* contents of the localStorage slot
SlotAbsent == [k |-> "absent", doc |-> NoDoc]

SlotEmptyString == [k |-> "empty", doc |-> NoDoc]

SlotGarbage == [k |-> "garbage", doc |-> NoDoc]

SlotJSON(doc) == [k |-> "json", doc |-> doc]

\* JSON.stringify(todos)
stringify(ts) ==
    SlotJSON(JArray([i \in 1..Len(ts) |->
        JObject(ts[i].id, ts[i].text, ts[i].completed,
                dateToJSON(ts[i].createdAt))]))

\* ------------------------------------------------------------------- state
Todo(id, text, completed, createdAt) ==
    [id |-> id, text |-> text, completed |-> completed, createdAt |-> createdAt]

\* editingId is a string or null
Null == <<"null">>

Filters == {"all", "active", "completed"}

NoUpdate == [set |-> FALSE, v |-> <<>>]

\* ids an id-taking handler may be called with
IdInputs == {toString(n) : n \in ClockReadings} \cup {toString(0)}

\* what the slot may hold when the component mounts
\* a valid, non-empty stored collection: one completed todo
StoredTodos == <<Todo(toString(FirstReading), <<"a">>, TRUE, FirstReading)>>

SlotInputs ==
    { SlotAbsent, SlotEmptyString, SlotGarbage,
      SlotJSON(JNonArray),
      SlotJSON(JArray(<<>>)),
      SlotJSON(JArray(<<JNullItem>>)),
      stringify(StoredTodos),
      SlotJSON(JArray(<<JObject(toString(FirstReading), <<"a">>, FALSE, JAbsent)>>)),
      SlotJSON(JArray(<<JObject(toString(FirstReading), <<"a">>, FALSE, JNull)>>)) }

\* ------------------------------------------------------------ mount effects
\* JSON.parse(saved) throws a SyntaxError
parseThrows(saved) == saved.k = "garbage"

\* parsed.map(...) throws a TypeError: parsed has no map, or an element is null
mapThrows(parsed) ==
    \/ parsed.k # "array"
    \/ \E i \in 1..Len(parsed.items) : parsed.items[i].k = "null"

todosWithDates(parsed) ==
    [i \in 1..Len(parsed.items) |->
        Todo(parsed.items[i].id, parsed.items[i].text,
             parsed.items[i].completed, newDate(parsed.items[i].createdAt))]

\* loadOutcome without the try/catch around the parsing
loadOutcomeNoCatch(saved) ==
    IF saved.k \in {"absent", "empty"}
    THEN [pc |-> "save", queued |-> NoUpdate]
    ELSE IF parseThrows(saved) \/ mapThrows(saved.doc)
         THEN [pc |-> "crashed", queued |-> NoUpdate]
         ELSE [pc |-> "save",
               queued |-> [set |-> TRUE, v |-> todosWithDates(saved.doc)]]

\* Body of the load effect: what it queues with setTodos and where control
\* goes next (a caught error is only logged).
loadOutcome(saved) ==
    IF saved.k \in {"absent", "empty"}
    THEN [pc |-> "save", queued |-> NoUpdate]
    ELSE IF parseThrows(saved) \/ mapThrows(saved.doc)
         THEN [pc |-> "save", queued |-> NoUpdate]
         ELSE [pc |-> "save",
               queued |-> [set |-> TRUE, v |-> todosWithDates(saved.doc)]]

\* Body of the save effect
saveEffect(ts) == stringify(ts)

Init ==
    /\ todos = <<>>
    /\ newTodo = <<>>
    /\ filter = "all"
    /\ editingId = Null
    /\ editText = <<>>
    /\ slot \in SlotInputs
    /\ now = FirstReading
    /\ pc = "load"
    /\ queued = NoUpdate

\* The load effect, run once after the first render.
loadEffect ==
    /\ pc = "load"
    /\ LET out == loadOutcome(slot) IN
         /\ pc' = out.pc
         /\ queued' = out.queued
    /\ UNCHANGED <<todos, newTodo, filter, editingId, editText, slot, now>>

\* The save effect after a render of the mount phase: it writes the todos of
\* that render; a state update queued by the load effect is then rendered,
\* which changes todos and makes the save effect run again.
mountSaveEffect ==
    /\ pc = "save"
    /\ slot' = saveEffect(todos)
    /\ IF queued.set
       THEN /\ todos' = queued.v
            /\ queued' = NoUpdate
            /\ pc' = "save"
       ELSE /\ pc' = "ready"
            /\ UNCHANGED <<todos, queued>>
    /\ UNCHANGED <<newTodo, filter, editingId, editText, now>>

\* ---------------------------------------------------------------- handlers
\* commitTodos where the save effect does not run
commitTodosNoSave(next) ==
    /\ todos' = next
    /\ UNCHANGED slot

\* setTodos(next) followed by the render and its save effect
commitTodos(next) ==
    /\ todos' = next
    /\ slot' = saveEffect(next)

\* addedTodos keeping the text as typed
addedTodosNoTrim(text, idNow, dateNow) ==
    <<Todo(toString(idNow), text, FALSE, dateNow)>> \o todos

\* addedTodos putting the new item last
addedTodosAppend(text, idNow, dateNow) ==
    todos \o <<Todo(toString(idNow), trim(text), FALSE, dateNow)>>

\* todos after addTodo built its item from the clock readings idNow and dateNow
addedTodos(text, idNow, dateNow) ==
    <<Todo(toString(idNow), trim(text), FALSE, dateNow)>> \o todos

\* addTodoBody without the early return
addTodoBodyNoGuard ==
    /\ Len(todos) < MaxTodos
    /\ \E idNow \in {c \in ClockReadings : c >= now} :
       \E dateNow \in {c \in ClockReadings : c >= idNow} :
          /\ todos' = <<Todo(toString(idNow), trim(newTodo), FALSE, dateNow)>> \o todos
          /\ slot' = stringify(todos')
          /\ now' = dateNow
    /\ newTodo' = <<>>

addTodoBody ==
    IF trim(newTodo) = <<>>
    THEN UNCHANGED <<todos, slot, newTodo, now>>
    ELSE /\ Len(todos) < MaxTodos
         /\ \E idNow \in {c \in ClockReadings : c >= now} :
            \E dateNow \in {c \in ClockReadings : c >= idNow} :
               /\ commitTodos(addedTodos(newTodo, idNow, dateNow))
               /\ now' = dateNow
         /\ newTodo' = <<>>

addTodo ==
    /\ pc = "ready"
    /\ UNCHANGED <<filter, editingId, editText, pc, queued>>
    /\ addTodoBody

\* deletedTodos with the test inverted
deletedTodosKeepsMatch(ts, id) == SelectSeq(ts, LAMBDA todo : todo.id = id)

deletedTodos(ts, id) == SelectSeq(ts, LAMBDA todo : todo.id # id)

deleteTodo(id) ==
    /\ pc = "ready"
    /\ UNCHANGED <<newTodo, filter, editingId, editText, now, pc, queued>>
    /\ commitTodos(deletedTodos(todos, id))

\* toggledTodos marking the task completed instead of negating
toggledTodosSetsTrue(ts, id) ==
    [i \in 1..Len(ts) |->
        IF ts[i].id = id THEN [ts[i] EXCEPT !.completed = TRUE] ELSE ts[i]]

toggledTodos(ts, id) ==
    [i \in 1..Len(ts) |->
        IF ts[i].id = id
        THEN [ts[i] EXCEPT !.completed = ~ts[i].completed]
        ELSE ts[i]]

toggleTodo(id) ==
    /\ pc = "ready"
    /\ UNCHANGED <<newTodo, filter, editingId, editText, now, pc, queued>>
    /\ commitTodos(toggledTodos(todos, id))

\* startEditing keeping the draft of a session that is already open
startEditingKeepsDraft(todo) ==
    /\ pc = "ready"
    /\ editingId' = todo.id
    /\ editText' = (IF editingId = Null THEN todo.text ELSE editText)
    /\ UNCHANGED <<todos, newTodo, filter, slot, now, pc, queued>>

startEditing(todo) ==
    /\ pc = "ready"
    /\ editingId' = todo.id
    /\ editText' = todo.text
    /\ UNCHANGED <<todos, newTodo, filter, slot, now, pc, queued>>

\* savedTodos storing the draft as typed
savedTodosNoTrim ==
    [i \in 1..Len(todos) |->
        IF todos[i].id = editingId
        THEN [todos[i] EXCEPT !.text = editText]
        ELSE todos[i]]

savedTodos ==
    [i \in 1..Len(todos) |->
        IF todos[i].id = editingId
        THEN [todos[i] EXCEPT !.text = trim(editText)]
        ELSE todos[i]]

\* saveEditBody closing the session when the draft is blank
saveEditBodyClosesOnBlank ==
    IF trim(editText) = <<>>
    THEN /\ editingId' = Null
         /\ editText' = <<>>
         /\ UNCHANGED <<todos, slot>>
    ELSE /\ todos' = [i \in 1..Len(todos) |->
                        IF todos[i].id = editingId
                        THEN [todos[i] EXCEPT !.text = trim(editText)]
                        ELSE todos[i]]
         /\ slot' = stringify(todos')
         /\ editingId' = Null
         /\ editText' = <<>>

saveEditBody ==
    IF trim(editText) = <<>>
    THEN UNCHANGED <<todos, slot, editingId, editText>>
    ELSE /\ commitTodos(savedTodos)
         /\ editingId' = Null
         /\ editText' = <<>>

saveEdit ==
    /\ pc = "ready"
    /\ UNCHANGED <<newTodo, filter, now, pc, queued>>
    /\ saveEditBody

\* cancelEdit leaving the draft in the buffer
cancelEditKeepsDraft ==
    /\ pc = "ready"
    /\ editingId' = Null
    /\ UNCHANGED <<todos, newTodo, filter, editText, slot, now, pc, queued>>

cancelEdit ==
    /\ pc = "ready"
    /\ editingId' = Null
    /\ editText' = <<>>
    /\ UNCHANGED <<todos, newTodo, filter, slot, now, pc, queued>>

\* visibleTodos showing the completed tasks under 'active' and vice versa
visibleTodosSwapped(ts, f) ==
    SelectSeq(ts, LAMBDA todo :
        IF f = "active" THEN todo.completed
        ELSE IF f = "completed" THEN ~todo.completed
        ELSE TRUE)

\* the filter callback of filteredTodos, for the tasks ts and the filter f
visibleTodos(ts, f) ==
    SelectSeq(ts, LAMBDA todo :
        IF f = "active" THEN ~todo.completed
        ELSE IF f = "completed" THEN todo.completed
        ELSE TRUE)

\* derived values of a render
filteredTodos == visibleTodos(todos, filter)

\* activeCount counting among the tasks the filter shows
activeCountOfVisible == Len(SelectSeq(filteredTodos, LAMBDA todo : ~todo.completed))

activeCount == Len(SelectSeq(todos, LAMBDA todo : ~todo.completed))

completedCount == Len(todos) - activeCount

\* Enter pressed in the new-todo input
handleKeyDown ==
    /\ pc = "ready"
    /\ UNCHANGED <<filter, pc, queued>>
    /\ IF editingId # Null
       THEN UNCHANGED <<newTodo, now>> /\ saveEditBody
       ELSE UNCHANGED <<editingId, editText>> /\ addTodoBody

\* onChange of the new-todo input
setNewTodo(value) ==
    /\ pc = "ready"
    /\ newTodo' = value
    /\ UNCHANGED <<todos, filter, editingId, editText, slot, now, pc, queued>>

\* onChange of the edit input, rendered in the row of the todo being edited
setEditText(value) ==
    /\ pc = "ready"
    /\ \E i \in 1..Len(filteredTodos) : filteredTodos[i].id = editingId
    /\ editText' = value
    /\ UNCHANGED <<todos, newTodo, filter, editingId, slot, now, pc, queued>>

\* setFilter that also clears the completed tasks
setFilterClearsCompleted(f) ==
    /\ pc = "ready"
    /\ filter' = f
    /\ todos' = SelectSeq(todos, LAMBDA todo : ~todo.completed)
    /\ slot' = stringify(todos')
    /\ UNCHANGED <<newTodo, editingId, editText, now, pc, queued>>

setFilter(f) ==
    /\ pc = "ready"
    /\ filter' = f
    /\ UNCHANGED <<todos, newTodo, editingId, editText, slot, now, pc, queued>>

Next ==
    \/ loadEffect
    \/ mountSaveEffect
    \/ addTodo
    \/ \E id \in IdInputs : deleteTodo(id)
    \/ \E id \in IdInputs : toggleTodo(id)
    \/ \E i \in 1..Len(todos) : startEditing(todos[i])
    \/ saveEdit
    \/ cancelEdit
    \/ handleKeyDown
    \/ \E value \in NewTodoInputs : setNewTodo(value)
    \/ \E value \in EditTextInputs : setEditText(value)
    \/ \E f \in Filters : setFilter(f)

Spec == Init /\ [][Next]_vars

\* ------------------------------------------------------- the rendered list
\* The handlers as the rendered component calls them: a row of filteredTodos
\* shows the edit form when its todo is the one being edited, and the
\* checkbox and the edit and delete buttons otherwise.
editRowRendered ==
    \E i \in 1..Len(filteredTodos) : filteredTodos[i].id = editingId

contentRows == {i \in 1..Len(filteredTodos) : filteredTodos[i].id # editingId}

clickCheckbox ==
    \E i \in contentRows : toggleTodo(filteredTodos[i].id)

clickEdit ==
    \E i \in contentRows : startEditing(filteredTodos[i])

\* clickDelete with the delete button also shown in the row being edited
clickDeleteAnyRow ==
    \E i \in 1..Len(filteredTodos) : deleteTodo(filteredTodos[i].id)

clickDelete ==
    \E i \in contentRows : deleteTodo(filteredTodos[i].id)

\* the save button of the edit form, or Enter in its input
editFormSave == editRowRendered /\ saveEdit

\* the cancel button of the edit form, or Escape in its input
editFormCancel == editRowRendered /\ cancelEdit

NextUI ==
    \/ loadEffect
    \/ mountSaveEffect
    \/ addTodo
    \/ handleKeyDown
    \/ clickCheckbox
    \/ clickEdit
    \/ clickDelete
    \/ editFormSave
    \/ editFormCancel
    \/ \E value \in NewTodoInputs : setNewTodo(value)
    \/ \E value \in EditTextInputs : setEditText(value)
    \/ \E f \in Filters : setFilter(f)

\* A first visit: nothing is stored in the slot yet.
InitFresh == Init /\ slot = SlotAbsent

SpecFresh == InitFresh /\ [][Next]_vars

\* A return visit: the slot holds what an earlier visit saved.
InitStored == Init /\ slot = saveEffect(StoredTodos)

SpecStored == InitStored /\ [][Next]_vars

\* ------------------------------------------------------------------ claims
HasId(ts, id) == \E i \in 1..Len(ts) : ts[i].id = id

\* C1: all tasks of the collection have pairwise distinct ids, after any
\* sequence of operations from an empty collection and for every
\* non-decreasing sequence of clock readings.
C1_IdsDistinct ==
    \A i, j \in 1..Len(todos) : i # j => todos[i].id # todos[j].id

\* C2: whenever no operation is in progress, and so after each mutating
\* operation, the slot holds the serialization of the current task sequence.
C2_SlotHoldsSnapshot ==
    pc = "ready" => slot = stringify(todos)

C2_Witness ==
    /\ pc = "ready"
    /\ Len(todos) = 2
    /\ todos[1].completed
    /\ slot = stringify(todos)

\* the slot content is read by load and does not deserialize
DeserializeFails(saved) ==
    /\ saved.k \notin {"absent", "empty"}
    /\ \/ saved.k = "garbage"
       \/ saved.doc.k # "array"
       \/ \E i \in 1..Len(saved.doc.items) : saved.doc.items[i].k # "object"

\* C3: for every slot content that fails to deserialize, load finishes
\* without an error escaping, the collection is empty afterwards and the
\* component goes on to the state where its operations are available; no
\* crashed state is reachable.
C3_LoadFailureFallsBack ==
    /\ pc \in {"load", "save", "ready"}
    /\ (pc # "load" /\ DeserializeFails(slot)) =>
          /\ pc = "save"
          /\ queued = NoUpdate
          /\ todos = <<>>
          /\ ENABLED mountSaveEffect

C3_Witness ==
    /\ pc = "save"
    /\ DeserializeFails(slot)
    /\ todos = <<>>

\* the slot holds an array of task records {id, text, completed, createdAt}
\* with createdAt a string
WellShaped(saved) ==
    /\ saved.k = "json"
    /\ saved.doc.k = "array"
    /\ \A i \in 1..Len(saved.doc.items) :
          /\ saved.doc.items[i].k = "object"
          /\ saved.doc.items[i].createdAt.k = "string"

\* C4: well-formed data of another shape than an array of task records is
\* treated as a parse failure: nothing of it is queued for the collection.
C4_ShapeMismatchRejected ==
    (pc = "save" /\ slot.k = "json" /\ ~WellShaped(slot)) =>
        (queued = NoUpdate /\ todos = <<>>)

IsWhitespace(s) == \A i \in 1..Len(s) : s[i] = " "

\* C5: from an empty collection, every task's text is non-empty, not
\* whitespace-only and equal to its trimmed form, whatever the draft is.
C5_TextsTrimmed ==
    \A i \in 1..Len(todos) :
        /\ todos[i].text # <<>>
        /\ ~IsWhitespace(todos[i].text)
        /\ todos[i].text[1] # " "
        /\ todos[i].text[Len(todos[i].text)] # " "

C5_Witness ==
    /\ Len(todos) = 2
    /\ todos[1].text = <<"b">>
    /\ todos[2].text = <<"a">>
    /\ editingId = todos[2].id
    /\ editText = <<" ">>

\* C6: add(t) with trim(t) non-empty makes the collection one longer, with
\* the new task (text trim(t), completed=false) in front of the previous
\* tasks, which are unchanged and in their previous order.
C6_Step ==
    (addTodo /\ ~IsWhitespace(newTodo)) =>
        /\ Len(todos') = Len(todos) + 1
        /\ todos'[1].text = trim(newTodo)
        /\ todos'[1].text # <<>>
        /\ todos'[1].completed = FALSE
        /\ \A i \in 1..Len(todos) : todos'[i + 1] = todos[i]

C6_AddPrepends == [][C6_Step]_vars

C6_Witness ==
    /\ pc = "ready"
    /\ Len(todos) = 2
    /\ todos[1].text = <<"b">>
    /\ todos[2].text = <<"a">>
    /\ ~todos[1].completed
    /\ newTodo = <<>>

\* C7: add with an empty or whitespace-only text changes neither the
\* collection, the slot, the filter nor the edit session.
C7_Step ==
    (addTodo /\ IsWhitespace(newTodo)) =>
        /\ UNCHANGED <<todos, slot, filter, editingId, editText>>
        /\ pc' = "ready"

C7_BlankAddIsNoOp == [][C7_Step]_vars

C7_Witness ==
    /\ pc = "ready"
    /\ newTodo = <<" ">>
    /\ Len(todos) = 1
    /\ editingId # Null

\* C8: toggle(id) of a present id negates completed on the task with that id
\* and changes no other field, task, position or the length; toggling again
\* restores the original collection.
C8_Step ==
    UNCHANGED <<newTodo, filter, editingId, editText, now, pc, queued>> =>
        \A id \in IdInputs :
            (HasId(todos, id) /\ toggleTodo(id)) =>
                /\ Len(todos') = Len(todos)
                /\ \A i \in 1..Len(todos) :
                      /\ todos'[i].id = todos[i].id
                      /\ todos'[i].text = todos[i].text
                      /\ todos'[i].createdAt = todos[i].createdAt
                      /\ todos'[i].completed =
                            (IF todos[i].id = id THEN ~todos[i].completed
                             ELSE todos[i].completed)
                /\ toggledTodos(todos', id) = todos

C8_ToggleFlipsOnlyTarget == [][C8_Step]_vars

C8_Witness ==
    /\ pc = "ready"
    /\ Len(todos) = 2
    /\ todos[1].id # todos[2].id
    /\ todos[1].completed
    /\ ~todos[2].completed

\* the positions of ts kept by a removal of the tasks with this id
Kept(ts, id) == {i \in 1..Len(ts) : ts[i].id # id}

\* C9: toggle and delete of an id matching no task leave the collection as it
\* is; delete of a matching id removes the tasks with that id and keeps the
\* remaining tasks, unchanged and in their relative order.
C9_Step ==
    UNCHANGED <<newTodo, filter, editingId, editText, now, pc, queued>> =>
        \A id \in IdInputs :
            IF HasId(todos, id)
            THEN deleteTodo(id) =>
                    /\ ~HasId(todos', id)
                    /\ Len(todos') = Cardinality(Kept(todos, id))
                    /\ \A i \in Kept(todos, id) :
                          todos'[Cardinality({j \in Kept(todos, id) : j <= i})]
                              = todos[i]
            ELSE (toggleTodo(id) \/ deleteTodo(id)) => todos' = todos

C9_MissingIdNoOpDeleteRemoves == [][C9_Step]_vars

C9_Witness ==
    /\ pc = "ready"
    /\ todos = <<>>
    /\ now # FirstReading

\* C10: saveEdit with an active session and an empty or whitespace-only
\* draft changes no task, not the slot, not the target id and not the draft:
\* the session stays active.
C10_Step ==
    (saveEdit /\ editingId # Null /\ IsWhitespace(editText)) =>
        /\ UNCHANGED <<todos, slot, editingId, editText>>
        /\ editingId' # Null

C10_BlankSaveKeepsSession == [][C10_Step]_vars

C10_Witness ==
    /\ pc = "ready"
    /\ editingId # Null
    /\ HasId(todos, editingId)
    /\ editText = <<" ">>

\* C11: saveEdit with an active session and a non-blank draft sets the text
\* of the session's target task to the trimmed draft, keeps that task's id,
\* completed flag, createdAt and position, keeps every other task, and ends
\* with no session active.
C11_Step ==
    UNCHANGED <<newTodo, filter, now, pc, queued>> =>
        ((saveEdit /\ editingId # Null /\ ~IsWhitespace(editText)) =>
            /\ Len(todos') = Len(todos)
            /\ \A i \in 1..Len(todos) :
                  /\ todos'[i].id = todos[i].id
                  /\ todos'[i].completed = todos[i].completed
                  /\ todos'[i].createdAt = todos[i].createdAt
                  /\ todos'[i].text =
                        (IF todos[i].id = editingId
                         THEN trim(editText)
                         ELSE todos[i].text)
            /\ editingId' = Null)

C11_SaveEditCommitsDraft == [][C11_Step]_vars

\* a task loaded without createdAt carries the edited text, session closed
C11_Witness ==
    /\ pc = "ready"
    /\ Len(todos) = 2
    /\ todos[2].createdAt = InvalidDate
    /\ todos[2].text = <<"b">>
    /\ todos[1].text = <<"a">>
    /\ editingId = Null

\* C12: with no session active the draft buffer is empty, so that saveEdit,
\* which tests only the draft, changes neither the collection, the slot nor
\* the (absent) session.
C12_Step ==
    UNCHANGED <<newTodo, filter, now, pc, queued>> =>
        ((saveEdit /\ editingId = Null) =>
            UNCHANGED <<todos, slot, editingId, editText>>)

C12_NoSessionSaveIsNoOp ==
    /\ [](editingId = Null => editText = <<>>)
    /\ [][C12_Step]_vars

\* a session was opened, typed into and closed again
C12_Witness ==
    /\ pc = "ready"
    /\ Len(todos) = 1
    /\ todos[1].createdAt = InvalidDate
    /\ todos[1].text = <<"b">>
    /\ editingId = Null
    /\ editText = <<>>
    /\ newTodo = <<" ">>

\* C13: writing the collection to the slot and running load on a fresh
\* component yields an equal collection: same length and order, and for each
\* task the same id, text, completed flag and creation timestamp.
C13_RoundTrip ==
    pc = "ready" =>
        loadOutcome(saveEffect(todos)).queued = [set |-> TRUE, v |-> todos]

\* v is the subsequence of ts at the positions K, in the order of ts
IsSelection(v, ts, K) ==
    /\ Len(v) = Cardinality(K)
    /\ \A i \in K : v[Cardinality({j \in K : j <= i})] = ts[i]

ActivePositions == {i \in 1..Len(todos) : todos[i].completed = FALSE}

CompletedPositions == {i \in 1..Len(todos) : todos[i].completed = TRUE}

\* C14: the view under 'active' is the subsequence of the tasks with
\* completed=false, under 'completed' the subsequence with completed=true,
\* under 'all' the whole sequence, each in the order of the collection; the
\* 'active' and 'completed' views share no task and together hold every task.
C14_ViewsPartition ==
    /\ IsSelection(visibleTodos(todos, "active"), todos, ActivePositions)
    /\ IsSelection(visibleTodos(todos, "completed"), todos, CompletedPositions)
    /\ visibleTodos(todos, "all") = todos
    /\ filteredTodos = visibleTodos(todos, filter)
    /\ ActivePositions \cap CompletedPositions = {}
    /\ ActivePositions \cup CompletedPositions = 1..Len(todos)
    /\ Len(visibleTodos(todos, "active")) + Len(visibleTodos(todos, "completed"))
          = Len(todos)

C14_Witness ==
    /\ pc = "ready"
    /\ filter = "active"
    /\ Len(todos) = 2
    /\ todos[1].completed
    /\ ~todos[2].completed
    /\ filteredTodos = <<todos[2]>>

\* C15: whatever the filter, the counts are those of the whole collection:
\* active = tasks with completed=false, completed = tasks with
\* completed=true, total = length, so active + completed = total.
C15_CountsOfWholeCollection ==
    /\ activeCount = Cardinality(ActivePositions)
    /\ completedCount = Cardinality(CompletedPositions)
    /\ activeCount + completedCount = Len(todos)

C15_Witness ==
    /\ pc = "ready"
    /\ filter = "completed"
    /\ Len(filteredTodos) = 1
    /\ activeCount = 1
    /\ completedCount = 1

\* C16: startEdit of a task of the collection leaves one session, whose
\* target is that task's id and whose draft is that task's current text,
\* whatever session was active before; the earlier draft is committed to no
\* task, and the collection and the slot are unchanged.
C16_Step ==
    UNCHANGED <<todos, newTodo, filter, slot, now, pc, queued>> =>
        \A i \in 1..Len(todos) :
            startEditing(todos[i]) =>
                /\ editingId' = todos[i].id
                /\ editingId' # Null
                /\ editText' = todos[i].text
                /\ todos' = todos
                /\ slot' = slot

C16_StartEditSeedsDraft == [][C16_Step]_vars

\* a session on the older of two tasks, seeded with that task's text
C16_Witness ==
    /\ pc = "ready"
    /\ Len(todos) = 2
    /\ todos[1].id # todos[2].id
    /\ todos[1].text = <<"b">>
    /\ todos[2].text = <<"a">>
    /\ editingId = todos[2].id
    /\ editText = <<"a">>
    /\ filter = "completed"

\* C17: updateDraft, cancelEdit and setFilter leave the collection and the
\* slot unchanged; cancelEdit ends with no session active; updateDraft
\* changes the draft buffer only.
C17_Step ==
    UNCHANGED <<newTodo, now, pc, queued>> =>
        /\ (\E value \in EditTextInputs : setEditText(value)) =>
              /\ todos' = todos
              /\ slot' = slot
              /\ editingId' = editingId
              /\ filter' = filter
        /\ cancelEdit =>
              /\ todos' = todos
              /\ slot' = slot
              /\ editingId' = Null
        /\ (\E f \in Filters : setFilter(f)) =>
              /\ todos' = todos
              /\ slot' = slot

C17_NonCommittingOpsKeepTodos == [][C17_Step]_vars

\* a draft typed under a filter, nothing of it in the collection
C17_Witness ==
    /\ pc = "ready"
    /\ filter = "active"
    /\ Len(todos) = 1
    /\ editingId = todos[1].id
    /\ todos[1].text = <<"a">>
    /\ editText = <<"b", " ">>
    /\ slot = stringify(todos)

\* C18: in every reachable state, with or without an edit session, Enter in
\* the new-task entry holding a non-blank text adds a task with that text at
\* the front, and changes the text of no existing task.
C18_Step ==
    UNCHANGED <<filter, pc, queued>> =>
        ((handleKeyDown /\ ~IsWhitespace(newTodo)) =>
            /\ Len(todos') = Len(todos) + 1
            /\ todos'[1].text = trim(newTodo)
            /\ \A i \in 1..Len(todos) : todos'[i + 1].text = todos[i].text)

C18_EnterSubmitsEntry == [][C18_Step]_vars

\* C19 as claimed: after any sequence of the operations, an active session's
\* target id is the id of a task of the collection.
C19_SessionTargetExists ==
    editingId # Null => HasId(todos, editingId)

\* C19 amended: a step the rendered component offers (its list shows no
\* delete button in the row being edited) keeps an active session's target
\* in the collection; deleteTodo itself never closes a session.
C19_Step ==
    (NextUI /\ C19_SessionTargetExists) => C19_SessionTargetExists'

C19_RenderedStepsKeepTarget == [][C19_Step]_vars

\* a session on the task left after the other task was deleted
C19_Witness ==
    /\ pc = "ready"
    /\ now # FirstReading
    /\ Len(todos) = 1
    /\ todos[1].id = toString(FirstReading)
    /\ editingId = todos[1].id
    /\ editText = <<" ">>

\* C20: started with a valid non-empty snapshot in the slot, every step of the
\* mount (the load effect, each run of the save effect) leaves that snapshot
\* in the slot, and the mount ends with the stored collection in todos.
C20_Step ==
    pc # "ready" =>
        /\ slot' = saveEffect(StoredTodos)
        /\ pc' = "ready" => todos' = StoredTodos

C20_MountKeepsSnapshot == [][C20_Step]_vars

====
